---- MODULE Spec2Model ----
(***************************************************************************)
(* TrackPlayer (src/src/ttsplayer/audio/player.py) over an audio backend   *)
(* with a small channel pool, an injected clock and a host that calls      *)
(* preload / play / seek / stop / set_volume / get_current_position /      *)
(* close.                                                                  *)
(*                                                                         *)
(* Times are exact integers in milliseconds (the code's float seconds      *)
(* times MsPerSecond); volumes are integers in percent (1.0 = FullVolume). *)
(* A byte buffer is modelled by its length: the code only takes len(raw)   *)
(* and the suffix raw[aligned_offset:].                                    *)
(* An optional value (Python None or a value) is <<>> or <<x>>.            *)
(*                                                                         *)
(* AudioLibraryLoader (src/src/ttsplayer/audio/loader.py) over a directory *)
(* tree. A string the loader takes apart (a file name, a sidecar's text)   *)
(* is a sequence of one-character strings.                                 *)
(***************************************************************************)
EXTENDS Integers, Sequences, FiniteSets, TLC

VARIABLES
    clock,            \* the injected time provider's reading (ms)
    channels,         \* backend channel pool: index -> channel
    mixer_init,       \* backend initialised (FALSE after mixer.quit())
    has_get_pos,      \* whether the backend's channels offer get_pos()
    format,           \* the device format <<frequency, format_bits, channels>>
    sample_rate,      \* self._sample_rate (optional)
    bytes_per_frame,  \* self._bytes_per_frame (optional)
    sounds,           \* self._sounds: identifier -> preloaded sound
    lengths,          \* self._lengths: identifier -> ms
    raw_audio,        \* self._raw_audio: identifier -> len(raw)
    current_track,    \* self._current_track (optional)
    current_channel,  \* self._current_channel (optional channel index)
    active_segment,   \* self._active_segment (optional sound)
    start_timestamp,  \* self._start_timestamp (optional)
    current_offset,   \* self._current_offset
    last_position,    \* self._last_position
    op,               \* the last call of the host and its outcome
    loads,            \* identifier -> number of backend loads from a path
    level,            \* the level of the last set_volume (optional)
    root_exists,      \* whether the loader's root directory exists
    recursive,        \* self.recursive
    files,            \* the entries of the directory tree under the root
    loaded            \* what the last load_tracks() returned (optional)

vars == <<clock, channels, mixer_init, has_get_pos, format, sample_rate,
          bytes_per_frame, sounds, lengths, raw_audio, current_track,
          current_channel, active_segment, start_timestamp, current_offset,
          last_position, op, loads, level, root_exists, recursive, files,
          loaded>>

library == <<root_exists, recursive, files, loaded>>

backend == <<mixer_init, has_get_pos, format, sample_rate, bytes_per_frame>>
store == <<sounds, lengths, raw_audio, loads>>
session == <<current_track, current_channel, active_segment, start_timestamp,
             current_offset, last_position>>

----------------------------------------------------------------------------
(* Bounds and program constants *)

MaxClock == 1000
NumChannels == 2
MsPerSecond == 1000
FullVolume == 100
BitsPerByte == 8

Step == MsPerSecond \div 2

None == <<>>
Some(x) == <<x>>
Val(o) == o[1]

EmptyMap == [x \in {} |-> x]
Put(m, k, v) == [x \in DOMAIN m \cup {k} |-> IF x = k THEN v ELSE m[x]]

Max(a, b) == IF a >= b THEN a ELSE b
Min(a, b) == IF a <= b THEN a ELSE b
Abs(a) == IF a >= 0 THEN a ELSE 0 - a

Tracks == {"a", "b", "c"}

(* What the backend holds for each audio path: the true duration, whether  *)
(* the sound reports a length, whether it yields a raw buffer.             *)
Catalogue(id) ==
    CASE id = "a" -> [dur |-> 1000, reports_length |-> TRUE,  has_raw |-> TRUE]
      [] id = "b" -> [dur |-> 1000, reports_length |-> TRUE,  has_raw |-> FALSE]
      [] OTHER    -> [dur |-> 500,  reports_length |-> FALSE, has_raw |-> TRUE]

Formats == {<<2, 0 - 16, 1>>}

Times == {0 - 250, 0, 250, 500, 750, 1000, 1250}
Volumes == {0 - 50, 25, 150}
TrackLists == {<<x>> : x \in Tracks} \cup {<<x, x>> : x \in Tracks} \cup {<<"a", "b">>}

ChannelIds == 0 .. (NumChannels - 1)

----------------------------------------------------------------------------
(* Sounds and channels of the backend *)

NoSound == [kind |-> "none", id |-> "", from |-> 0, bytes |-> 0, volume |-> 0]
ExtSound == [kind |-> "ext", id |-> "", from |-> 0, bytes |-> 0, volume |-> FullVolume]

FrameBytes(fmt) == Max(1, Abs(fmt[2]) \div BitsPerByte) * Max(1, fmt[3])

RawBytes(id) == (Catalogue(id).dur * format[1] * FrameBytes(format)) \div MsPerSecond

(* A preloaded (full) sound is referred to by its identifier: its volume   *)
(* lives in sounds[id]. A sound built from a buffer is a value of its own. *)
FullSound(id) == [kind |-> "full", id |-> id, from |-> 0, bytes |-> 0, volume |-> 0]
BufferSound(id, aligned, n) ==
    [kind |-> "partial", id |-> id, from |-> aligned, bytes |-> n, volume |-> FullVolume]

SoundVolume(s) == IF s.kind = "full" THEN sounds[s.id].volume ELSE s.volume

SoundDuration(s) ==
    IF s.kind = "full" THEN Catalogue(s.id).dur
    ELSE (s.bytes * MsPerSecond) \div (FrameBytes(format) * format[1])

IdleChannel(vol) == [sound |-> NoSound, pos |-> 0, started |-> 0, volume |-> vol]

Busy(ch) == ch.sound.kind # "none"

ChannelPlay(chs, c, s) ==
    [chs EXCEPT ![c] = [sound |-> s, pos |-> 0, started |-> clock, volume |-> @.volume]]

ChannelStop(chs, c) ==
    [chs EXCEPT ![c] = IdleChannel(@.volume)]

FreeChannels(chs) == {c \in ChannelIds : ~Busy(chs[c])}

(* mixer.find_channel(), the first channel that is not busy, or, when it *)
(* returns None, mixer.Channel(0)                                        *)
AcquireChannel(chs) ==
    IF FreeChannels(chs) = {} THEN 0
    ELSE CHOOSE c \in FreeChannels(chs) : \A d \in FreeChannels(chs) : c <= d

----------------------------------------------------------------------------
(* TrackPlayer *)

(* op: the call's name, the identifier given to play, the time given to a *)
(* play or seek that went on to prepare a sound (the level given to       *)
(* set_volume), and the error raised.                                     *)
(* was: the track that was playing when play or stop was called ("" if    *)
(* none). built: how mixer.Sound(buffer=...) went in the call, "ok" or    *)
(* "failed" ("" when the call built no sound from a buffer).              *)
(* pool: "full" when the call asked find_channel() for a channel and none  *)
(* was free, so that it fell back on Channel(0).                           *)
(* resume: "yes" for a play(id, start=p) that follows a stop() of the       *)
(* playing track id whose position p had just been read (a pause and       *)
(* resume by the host); the stop records p as its t, or -1.                *)
NoOp ==
    [name |-> "init", id |-> "", t |-> 0, raised |-> "", was |-> "", built |-> "",
     pool |-> "", resume |-> ""]
Call(name, id, t, raised) ==
    [name |-> name, id |-> id, t |-> t, raised |-> raised, was |-> "", built |-> "",
     pool |-> "", resume |-> ""]

InitPlayer ==
    /\ clock = 0
    /\ channels = [c \in ChannelIds |-> IdleChannel(FullVolume)]
    /\ mixer_init = TRUE
    /\ has_get_pos \in BOOLEAN
    /\ format \in Formats
    /\ \E reported \in BOOLEAN :
          /\ sample_rate = IF reported THEN Some(format[1]) ELSE None
          /\ bytes_per_frame = IF reported THEN Some(FrameBytes(format)) ELSE None
    /\ sounds = EmptyMap
    /\ lengths = EmptyMap
    /\ raw_audio = EmptyMap
    /\ current_track = None
    /\ current_channel = None
    /\ active_segment = None
    /\ start_timestamp = None
    /\ current_offset = 0
    /\ last_position = 0
    /\ op = NoOp
    /\ loads = [id \in Tracks |-> 0]
    /\ level = None

(* The player next to a loader that has not scanned anything *)
Init ==
    /\ InitPlayer
    /\ root_exists = TRUE
    /\ recursive = FALSE
    /\ files = {}
    /\ loaded = None

Preloaded(id) == id \in DOMAIN sounds

GetTrackLength(track_id) ==
    IF track_id \in DOMAIN lengths THEN Some(lengths[track_id]) ELSE None

SupportsSeeking_RawOnly(track_id) ==
    track_id \in DOMAIN raw_audio

SupportsSeeking(track_id) ==
    /\ track_id \in DOMAIN raw_audio
    /\ sample_rate # None
    /\ bytes_per_frame # None

IsPlaying_HasTrack == current_track # None

IsPlaying ==
    /\ current_channel # None
    /\ Busy(channels[Val(current_channel)])

(* preload: the loop body for one track, player.py 55-68 *)
PreloadOne_Reload(st, id) ==
    IF FALSE THEN st
    ELSE LET info == Catalogue(id)
             raw == IF info.has_raw THEN RawBytes(id) ELSE 0
         IN [sounds |-> Put(st.sounds, id, [path |-> id, volume |-> FullVolume]),
             lengths |-> Put(st.lengths, id,
                             IF info.reports_length THEN info.dur ELSE 0),
             raw_audio |-> IF raw # 0 THEN Put(st.raw_audio, id, raw)
                           ELSE st.raw_audio,
             loads |-> [st.loads EXCEPT ![id] = @ + 1]]

PreloadOne(st, id) ==
    IF id \in DOMAIN st.sounds THEN st
    ELSE LET info == Catalogue(id)
             raw == IF info.has_raw THEN RawBytes(id) ELSE 0
         IN [sounds |-> Put(st.sounds, id, [path |-> id, volume |-> FullVolume]),
             lengths |-> Put(st.lengths, id,
                             IF info.reports_length THEN info.dur ELSE 0),
             raw_audio |-> IF raw # 0 THEN Put(st.raw_audio, id, raw)
                           ELSE st.raw_audio,
             loads |-> [st.loads EXCEPT ![id] = @ + 1]]

RECURSIVE PreloadAll(_, _)
PreloadAll(st, tracks) ==
    IF tracks = <<>> THEN st
    ELSE PreloadAll(PreloadOne(st, Head(tracks)), Tail(tracks))

Preload_Stops(tracks) ==
    /\ mixer_init
    /\ LET st == PreloadAll([sounds |-> sounds, lengths |-> lengths,
                             raw_audio |-> raw_audio, loads |-> loads], tracks)
       IN /\ sounds' = st.sounds
          /\ lengths' = st.lengths
          /\ raw_audio' = st.raw_audio
          /\ loads' = st.loads
    /\ op' = Call("preload", "", 0, "")
    /\ channels' = IF IsPlaying THEN ChannelStop(channels, Val(current_channel))
                   ELSE channels
    /\ current_channel' = None
    /\ current_track' = None
    /\ start_timestamp' = None
    /\ current_offset' = 0
    /\ last_position' = 0
    /\ active_segment' = None
    /\ UNCHANGED <<library, clock, backend, level>>

Preload(tracks) ==
    /\ mixer_init
    /\ LET st == PreloadAll([sounds |-> sounds, lengths |-> lengths,
                             raw_audio |-> raw_audio, loads |-> loads], tracks)
       IN /\ sounds' = st.sounds
          /\ lengths' = st.lengths
          /\ raw_audio' = st.raw_audio
          /\ loads' = st.loads
    /\ op' = Call("preload", "", 0, "")
    /\ UNCHANGED <<library, clock, channels, backend, session, level>>

(* _prepare_sound, player.py 195-226. build_ok: whether the backend builds *)
(* a sound from the raw slice (mixer.Sound(buffer=partial)).               *)
Prepared(sound, actual_start, is_partial) ==
    [sound |-> sound, actual_start |-> actual_start, is_partial |-> is_partial]

PrepareSound_NoOffset(track_id, start, build_ok) ==
    LET base == Prepared(Some(FullSound(track_id)), 0, FALSE)
        length == GetTrackLength(track_id)
        known == length # None /\ Val(length) > 0
    IN IF start <= 0 \/ ~SupportsSeeking(track_id) THEN base
       ELSE LET raw == raw_audio[track_id]
                rate == Val(sample_rate)
                bpf == Val(bytes_per_frame)
                s == IF known THEN Max(0, Min(start, Val(length))) ELSE start
                offset_frames == (s * rate) \div MsPerSecond
                aligned_offset == offset_frames * bpf
                actual == (aligned_offset * MsPerSecond) \div (bpf * rate)
            IN IF raw = 0 \/ rate = 0 \/ bpf = 0 THEN base
               ELSE IF aligned_offset >= raw
                    THEN Prepared(None,
                                  IF length # None /\ Val(length) # 0
                                  THEN Val(length) ELSE s,
                                  FALSE)
               ELSE IF ~build_ok THEN base
               ELSE Prepared(
                        Some(BufferSound(track_id, aligned_offset, raw - aligned_offset)),
                        0,
                        TRUE)

PrepareSound_Verbatim(track_id, start, build_ok) ==
    LET base == Prepared(Some(FullSound(track_id)), 0, FALSE)
        length == GetTrackLength(track_id)
        known == length # None /\ Val(length) > 0
    IN IF start <= 0 \/ ~SupportsSeeking(track_id) THEN base
       ELSE LET raw == raw_audio[track_id]
                rate == Val(sample_rate)
                bpf == Val(bytes_per_frame)
                s == IF known THEN Max(0, Min(start, Val(length))) ELSE start
                offset_frames == (s * rate) \div MsPerSecond
                aligned_offset == offset_frames * bpf
                actual == (aligned_offset * MsPerSecond) \div (bpf * rate)
            IN IF raw = 0 \/ rate = 0 \/ bpf = 0 THEN base
               ELSE IF aligned_offset >= raw
                    THEN Prepared(None,
                                  IF length # None /\ Val(length) # 0
                                  THEN Val(length) ELSE s,
                                  FALSE)
               ELSE IF ~build_ok THEN base
               ELSE Prepared(
                        Some(BufferSound(track_id, aligned_offset, raw - aligned_offset)),
                        s,
                        TRUE)

PrepareSound_NoFallback(track_id, start, build_ok) ==
    LET base == Prepared(Some(FullSound(track_id)), 0, FALSE)
        length == GetTrackLength(track_id)
        known == length # None /\ Val(length) > 0
    IN IF start <= 0 \/ ~SupportsSeeking(track_id) THEN base
       ELSE LET raw == raw_audio[track_id]
                rate == Val(sample_rate)
                bpf == Val(bytes_per_frame)
                s == IF known THEN Max(0, Min(start, Val(length))) ELSE start
                offset_frames == (s * rate) \div MsPerSecond
                aligned_offset == offset_frames * bpf
                actual == (aligned_offset * MsPerSecond) \div (bpf * rate)
            IN IF raw = 0 \/ rate = 0 \/ bpf = 0 THEN base
               ELSE IF aligned_offset >= raw
                    THEN Prepared(None,
                                  IF length # None /\ Val(length) # 0
                                  THEN Val(length) ELSE s,
                                  FALSE)
               ELSE IF ~build_ok THEN Prepared(None, s, FALSE)
               ELSE Prepared(
                        Some(BufferSound(track_id, aligned_offset, raw - aligned_offset)),
                        IF known THEN Min(actual, Val(length)) ELSE actual,
                        TRUE)

PrepareSound_KeepsStart(track_id, start, build_ok) ==
    LET base == Prepared(Some(FullSound(track_id)), Max(0, start), FALSE)
        length == GetTrackLength(track_id)
        known == length # None /\ Val(length) > 0
    IN IF start <= 0 \/ ~SupportsSeeking(track_id) THEN base
       ELSE LET raw == raw_audio[track_id]
                rate == Val(sample_rate)
                bpf == Val(bytes_per_frame)
                s == IF known THEN Max(0, Min(start, Val(length))) ELSE start
                offset_frames == (s * rate) \div MsPerSecond
                aligned_offset == offset_frames * bpf
                actual == (aligned_offset * MsPerSecond) \div (bpf * rate)
            IN IF raw = 0 \/ rate = 0 \/ bpf = 0 THEN base
               ELSE IF aligned_offset >= raw
                    THEN Prepared(None,
                                  IF length # None /\ Val(length) # 0
                                  THEN Val(length) ELSE s,
                                  FALSE)
               ELSE IF ~build_ok THEN base
               ELSE Prepared(
                        Some(BufferSound(track_id, aligned_offset, raw - aligned_offset)),
                        IF known THEN Min(actual, Val(length)) ELSE actual,
                        TRUE)

PrepareSound(track_id, start, build_ok) ==
    LET base == Prepared(Some(FullSound(track_id)), 0, FALSE)
        length == GetTrackLength(track_id)
        known == length # None /\ Val(length) > 0
    IN IF start <= 0 \/ ~SupportsSeeking(track_id) THEN base
       ELSE LET raw == raw_audio[track_id]
                rate == Val(sample_rate)
                bpf == Val(bytes_per_frame)
                s == IF known THEN Max(0, Min(start, Val(length))) ELSE start
                offset_frames == (s * rate) \div MsPerSecond
                aligned_offset == offset_frames * bpf
                actual == (aligned_offset * MsPerSecond) \div (bpf * rate)
            IN IF raw = 0 \/ rate = 0 \/ bpf = 0 THEN base
               ELSE IF aligned_offset >= raw
                    THEN Prepared(None,
                                  IF length # None /\ Val(length) # 0
                                  THEN Val(length) ELSE s,
                                  FALSE)
               ELSE IF ~build_ok THEN base
               ELSE Prepared(
                        Some(BufferSound(track_id, aligned_offset, raw - aligned_offset)),
                        IF known THEN Min(actual, Val(length)) ELSE actual,
                        TRUE)

(* The outcomes of mixer.Sound(buffer=partial) that _prepare_sound can meet: *)
(* it is only called when a slice is cut.                                    *)
BuildOutcomes(track_id, start) ==
    IF PrepareSound(track_id, start, TRUE).is_partial THEN BOOLEAN ELSE {TRUE}

Built(track_id, start, build_ok) ==
    IF PrepareSound(track_id, start, TRUE).is_partial
    THEN IF build_ok THEN "ok" ELSE "failed"
    ELSE ""

Polled ==
    IF op.name = "get_current_position" /\ op.raised = "" /\ current_channel # None
           /\ Busy(channels[Val(current_channel)])
    THEN last_position
    ELSE 0 - 1

(* stop(), player.py 99-108, as the channel pool it leaves *)
StoppedChannels_NoHalt == channels

StoppedChannels ==
    IF IsPlaying THEN ChannelStop(channels, Val(current_channel)) ELSE channels

Stop_NoHalt ==
    /\ channels' = channels
    /\ current_channel' = None
    /\ current_track' = None
    /\ start_timestamp' = None
    /\ current_offset' = 0
    /\ last_position' = 0
    /\ active_segment' = None
    /\ op' = [Call("stop", "", Polled, "") EXCEPT
                  !.was = IF IsPlaying THEN Val(current_track) ELSE ""]
    /\ UNCHANGED <<library, clock, backend, store, level>>

Stop_KeepsTimestamp ==
    /\ channels' = StoppedChannels
    /\ current_channel' = None
    /\ current_track' = None
    /\ start_timestamp' = start_timestamp
    /\ current_offset' = 0
    /\ last_position' = 0
    /\ active_segment' = None
    /\ op' = [Call("stop", "", Polled, "") EXCEPT
                  !.was = IF IsPlaying THEN Val(current_track) ELSE ""]
    /\ UNCHANGED <<library, clock, backend, store, level>>

Stop ==
    /\ channels' = StoppedChannels
    /\ current_channel' = None
    /\ current_track' = None
    /\ start_timestamp' = None
    /\ current_offset' = 0
    /\ last_position' = 0
    /\ active_segment' = None
    /\ op' = [Call("stop", "", Polled, "") EXCEPT
                  !.was = IF IsPlaying THEN Val(current_track) ELSE ""]
    /\ UNCHANGED <<library, clock, backend, store, level>>

(* play(), player.py 73-97 *)
PlayRejected_NoRaise(track_id, start) ==
    /\ ~Preloaded(track_id)
    /\ op' = Call("play", track_id, 0, "")
    /\ UNCHANGED <<library, clock, channels, backend, store, session, level>>

PlayRejected_StopsFirst(track_id, start) ==
    /\ ~Preloaded(track_id)
    /\ op' = Call("play", track_id, 0, "KeyError")
    /\ channels' = StoppedChannels
    /\ current_channel' = None
    /\ current_track' = None
    /\ start_timestamp' = None
    /\ current_offset' = 0
    /\ last_position' = 0
    /\ active_segment' = None
    /\ UNCHANGED <<library, clock, backend, store, level>>

PlayRejected(track_id, start) ==
    /\ ~Preloaded(track_id)
    /\ op' = Call("play", track_id, 0, "KeyError")
    /\ UNCHANGED <<library, clock, channels, backend, store, session, level>>

PlayPastEnd_KeepsPlaying(track_id, start, p) ==
    /\ p.sound = None
    /\ channels' = channels
    /\ current_channel' = current_channel
    /\ active_segment' = active_segment
    /\ current_track' = Some(track_id)
    /\ current_offset' = p.actual_start
    /\ last_position' = p.actual_start
    /\ start_timestamp' = start_timestamp

PlayPastEnd(track_id, start, p) ==
    /\ p.sound = None
    /\ channels' = StoppedChannels
    /\ current_channel' = None
    /\ active_segment' = None
    /\ current_track' = Some(track_id)
    /\ current_offset' = p.actual_start
    /\ last_position' = p.actual_start
    /\ start_timestamp' = None

PlayStart_FromZero(track_id, start, p) ==
    /\ p.sound # None
    /\ LET c == AcquireChannel(StoppedChannels)
       IN /\ channels' = ChannelPlay(StoppedChannels, c, FullSound(track_id))
          /\ current_channel' = Some(c)
    /\ current_track' = Some(track_id)
    /\ current_offset' = 0
    /\ last_position' = 0
    /\ start_timestamp' = Some(clock)
    /\ active_segment' = None

PlayStart_NoStop(track_id, start, p) ==
    /\ p.sound # None
    /\ LET c == AcquireChannel(channels)
       IN /\ channels' = ChannelPlay(channels, c, Val(p.sound))
          /\ current_channel' = Some(c)
    /\ current_track' = Some(track_id)
    /\ current_offset' = Max(0, p.actual_start)
    /\ last_position' = Max(0, p.actual_start)
    /\ start_timestamp' = Some(clock)
    /\ active_segment' = IF p.is_partial THEN p.sound ELSE None

PlayStart(track_id, start, p) ==
    /\ p.sound # None
    /\ LET c == AcquireChannel(StoppedChannels)
       IN /\ channels' = ChannelPlay(StoppedChannels, c, Val(p.sound))
          /\ current_channel' = Some(c)
    /\ current_track' = Some(track_id)
    /\ current_offset' = Max(0, p.actual_start)
    /\ last_position' = Max(0, p.actual_start)
    /\ start_timestamp' = Some(clock)
    /\ active_segment' = IF p.is_partial THEN p.sound ELSE None

Play(track_id, start, build_ok) ==
    /\ build_ok \in (IF Preloaded(track_id) THEN BuildOutcomes(track_id, start) ELSE {TRUE})
    /\ \/ PlayRejected(track_id, start)
       \/ /\ Preloaded(track_id)
          /\ mixer_init \/ PrepareSound(track_id, start, build_ok).sound = None
          /\ LET p == PrepareSound(track_id, start, build_ok)
             IN \/ PlayPastEnd(track_id, start, p)
                \/ PlayStart(track_id, start, p)
          /\ op' = [Call("play", track_id, start, "") EXCEPT
                        !.was = IF IsPlaying THEN Val(current_track) ELSE "",
                        !.built = Built(track_id, start, build_ok),
                        !.pool = IF /\ PrepareSound(track_id, start, build_ok).sound # None
                                    /\ FreeChannels(StoppedChannels) = {}
                                 THEN "full" ELSE "",
                        !.resume = IF /\ op.name = "stop"
                                      /\ op.was = track_id
                                      /\ op.t = start
                                   THEN "yes" ELSE ""]
          /\ UNCHANGED <<library, clock, backend, store, level>>

(* seek(), player.py 152-181 *)
SeekTarget(track_id, position) ==
    LET length == GetTrackLength(track_id)
    IN IF length # None /\ Val(length) > 0
       THEN Max(0, Min(position, Val(length)))
       ELSE Max(0, position)

SeekNothing_Moves(position, build_ok) ==
    /\ current_track = None
    /\ build_ok
    /\ op' = Call("seek", "", 0, "")
    /\ current_offset' = Max(0, position)
    /\ last_position' = Max(0, position)
    /\ UNCHANGED <<library, clock, channels, backend, store, level, current_track,
                   current_channel, active_segment, start_timestamp>>

SeekNothing(position, build_ok) ==
    /\ current_track = None
    /\ build_ok
    /\ op' = Call("seek", "", 0, "")
    /\ UNCHANGED <<library, clock, channels, backend, store, session, level>>

SeekPastEnd_NoStop(track_id, p) ==
    /\ p.sound = None
    /\ channels' = channels
    /\ current_channel' = current_channel
    /\ start_timestamp' = None
    /\ active_segment' = None
    /\ current_track' = Some(track_id)
    /\ current_offset' = p.actual_start
    /\ last_position' = p.actual_start

SeekPastEnd(track_id, p) ==
    /\ p.sound = None
    /\ channels' = StoppedChannels
    /\ current_channel' = None
    /\ start_timestamp' = None
    /\ active_segment' = None
    /\ current_track' = Some(track_id)
    /\ current_offset' = p.actual_start
    /\ last_position' = p.actual_start

SeekStart_KeepsTimestamp(track_id, p) ==
    /\ p.sound # None
    /\ LET c == IF current_channel # None THEN Val(current_channel)
                ELSE AcquireChannel(channels)
       IN /\ channels' = ChannelPlay(channels, c, Val(p.sound))
          /\ current_channel' = Some(c)
    /\ current_offset' = p.actual_start
    /\ start_timestamp' = IF start_timestamp # None THEN start_timestamp ELSE Some(clock)
    /\ last_position' = p.actual_start
    /\ current_track' = Some(track_id)
    /\ active_segment' = IF p.is_partial THEN p.sound ELSE None

SeekStart(track_id, p) ==
    /\ p.sound # None
    /\ LET c == IF current_channel # None THEN Val(current_channel)
                ELSE AcquireChannel(channels)
       IN /\ channels' = ChannelPlay(channels, c, Val(p.sound))
          /\ current_channel' = Some(c)
    /\ current_offset' = p.actual_start
    /\ start_timestamp' = Some(clock)
    /\ last_position' = p.actual_start
    /\ current_track' = Some(track_id)
    /\ active_segment' = IF p.is_partial THEN p.sound ELSE None

Seek(position, build_ok) ==
    \/ SeekNothing(position, build_ok)
    \/ /\ current_track # None
       /\ \/ mixer_init
          \/ PrepareSound(Val(current_track),
                          SeekTarget(Val(current_track), position),
                          build_ok).sound = None
       /\ build_ok \in BuildOutcomes(Val(current_track),
                                     SeekTarget(Val(current_track), position))
       /\ LET track_id == Val(current_track)
              p == PrepareSound(track_id, SeekTarget(track_id, position), build_ok)
          IN \/ SeekPastEnd(track_id, p)
             \/ SeekStart(track_id, p)
       /\ op' = [Call("seek", Val(current_track), position, "") EXCEPT
                     !.built = Built(Val(current_track),
                                     SeekTarget(Val(current_track), position),
                                     build_ok),
                     !.pool = IF /\ PrepareSound(Val(current_track),
                                                 SeekTarget(Val(current_track), position),
                                                 build_ok).sound # None
                                 /\ current_channel = None
                                 /\ FreeChannels(channels) = {}
                              THEN "full" ELSE ""]
       /\ UNCHANGED <<library, clock, backend, store, level>>

(* set_volume(), player.py 114-120 *)
Clamped_NoClamp(volume) == volume

Clamped(volume) == Max(0, Min(volume, FullVolume))

SetVolume(volume) ==
    /\ mixer_init
    /\ channels' = IF current_channel # None
                   THEN [channels EXCEPT ![Val(current_channel)].volume = Clamped(volume)]
                   ELSE channels
    /\ sounds' = [id \in DOMAIN sounds |-> [sounds[id] EXCEPT !.volume = Clamped(volume)]]
    /\ level' = Some(Clamped(volume))
    /\ op' = Call("set_volume", "", volume, "")
    /\ UNCHANGED <<library, clock, backend, lengths, raw_audio, loads, session>>

(* get_current_position(), player.py 122-150. report: what channel.get_pos() *)
(* gives, None when the channel has no get_pos (AttributeError).             *)
PosReports ==
    IF ~IsPlaying THEN {None}
    ELSE IF has_get_pos
         THEN {Some(channels[Val(current_channel)].pos), Some(0 - 1)}
         ELSE {None}

Position_NoClamp(report) ==
    IF current_track = None THEN 0
    ELSE LET known == GetTrackLength(Val(current_track))
             length == IF known # None THEN Val(known) ELSE 0
             channel_pos_ms == IF report # None THEN Val(report) ELSE 0 - 1
             use_channel == IsPlaying /\ channel_pos_ms # 0 /\ channel_pos_ms >= 0
             position ==
                 IF use_channel THEN current_offset + channel_pos_ms
                 ELSE IF start_timestamp # None
                      THEN current_offset + Max(0, clock - Val(start_timestamp))
                      ELSE current_offset
         IN position

(* now: the reading of the injected clock, self._clock() *)
PositionAt_NoFloor(report, now) ==
    IF current_track = None THEN 0
    ELSE LET known == GetTrackLength(Val(current_track))
             length == IF known # None THEN Val(known) ELSE 0
             channel_pos_ms == IF report # None THEN Val(report) ELSE 0 - 1
             use_channel == IsPlaying /\ channel_pos_ms # 0 /\ channel_pos_ms >= 0
             position ==
                 IF use_channel THEN current_offset + channel_pos_ms
                 ELSE IF start_timestamp # None
                      THEN current_offset + (now - Val(start_timestamp))
                      ELSE current_offset
         IN IF length # 0 THEN Min(position, length) ELSE position

PositionAt(report, now) ==
    IF current_track = None THEN 0
    ELSE LET known == GetTrackLength(Val(current_track))
             length == IF known # None THEN Val(known) ELSE 0
             channel_pos_ms == IF report # None THEN Val(report) ELSE 0 - 1
             use_channel == IsPlaying /\ channel_pos_ms # 0 /\ channel_pos_ms >= 0
             position ==
                 IF use_channel THEN current_offset + channel_pos_ms
                 ELSE IF start_timestamp # None
                      THEN current_offset + Max(0, now - Val(start_timestamp))
                      ELSE current_offset
         IN IF length # 0 THEN Min(position, length) ELSE position

Position(report) == PositionAt(report, clock)

(* channel.get_busy() on a channel of a mixer that has quit raises *)
(* pygame.error, which get_current_position does not catch.        *)
PositionRaises ==
    IF current_track # None /\ current_channel # None /\ ~mixer_init
    THEN "pygame.error"
    ELSE ""

GetCurrentPosition_ResetOnEnd(report) ==
    /\ report \in PosReports
    /\ op' = Call("get_current_position", "", 0, PositionRaises)
    /\ IF current_channel # None /\ ~IsPlaying
       THEN /\ current_track' = None
            /\ current_channel' = None
            /\ active_segment' = None
            /\ start_timestamp' = None
            /\ current_offset' = 0
            /\ last_position' = 0
       ELSE /\ last_position' = IF current_track = None \/ PositionRaises # ""
                                THEN last_position
                                ELSE Position(report)
            /\ UNCHANGED <<current_track, current_channel, active_segment,
                           start_timestamp, current_offset>>
    /\ UNCHANGED <<library, clock, channels, backend, store, level>>

GetCurrentPosition(report) ==
    /\ report \in PosReports
    /\ last_position' = IF current_track = None \/ PositionRaises # ""
                        THEN last_position
                        ELSE Position(report)
    /\ op' = Call("get_current_position", "", 0, PositionRaises)
    /\ UNCHANGED <<library, clock, channels, backend, store, level, current_track,
                   current_channel, active_segment, start_timestamp, current_offset>>

(* close(), player.py 228-231: stop(), then mixer.quit() halts every channel. *)
(* What the backend does with a load, a play or a volume change after quit() *)
(* is its own affair: the calls that reach the mixer are kept to an          *)
(* initialised one. A play or seek past the end reaches no mixer call.       *)
(* op.t: 1 when close was called on a player already closed.                 *)
Close_NoStop ==
    /\ channels' = [c \in ChannelIds |-> IdleChannel(channels[c].volume)]
    /\ mixer_init' = FALSE
    /\ op' = Call("close", "", IF mixer_init THEN 0 ELSE 1, "")
    /\ UNCHANGED <<library, clock, has_get_pos, format, sample_rate, bytes_per_frame,
                   store, level, session>>

Close_KeepChannel ==
    /\ channels' = [c \in ChannelIds |-> IdleChannel(channels[c].volume)]
    /\ mixer_init' = FALSE
    /\ current_track' = current_track
    /\ start_timestamp' = None
    /\ current_offset' = 0
    /\ last_position' = 0
    /\ active_segment' = None
    /\ op' = Call("close", "", IF mixer_init THEN 0 ELSE 1, "")
    /\ UNCHANGED <<library, clock, has_get_pos, format, sample_rate, bytes_per_frame,
                   store, level, current_channel>>

Close ==
    /\ channels' = [c \in ChannelIds |-> IdleChannel(channels[c].volume)]
    /\ mixer_init' = FALSE
    /\ current_channel' = None
    /\ current_track' = None
    /\ start_timestamp' = None
    /\ current_offset' = 0
    /\ last_position' = 0
    /\ active_segment' = None
    /\ op' = Call("close", "", IF mixer_init THEN 0 ELSE 1, "")
    /\ UNCHANGED <<library, clock, has_get_pos, format, sample_rate, bytes_per_frame,
                   store, level>>

----------------------------------------------------------------------------
(* Environment: the clock, the audio device, other users of the mixer *)

Tick ==
    /\ clock + Step <= MaxClock
    /\ clock' = clock + Step
    /\ UNCHANGED <<library, channels, backend, store, session, op, level>>

(* The device plays on: a sound never plays faster than real time, and the *)
(* channel stops being busy when its sound has played out.                 *)
ChannelAdvance_NeverEnds(c) ==
    /\ channels[c].sound.kind \in {"full", "partial"}
    /\ channels[c].pos + Step <= clock - channels[c].started
    /\ channels' = [channels EXCEPT ![c].pos = @ + Step]
    /\ UNCHANGED <<library, clock, backend, store, session, op, level>>

ChannelAdvance(c) ==
    /\ channels[c].sound.kind \in {"full", "partial"}
    /\ channels[c].pos + Step <= clock - channels[c].started
    /\ channels' = IF channels[c].pos + Step >= SoundDuration(channels[c].sound)
                   THEN ChannelStop(channels, c)
                   ELSE [channels EXCEPT ![c].pos = @ + Step]
    /\ UNCHANGED <<library, clock, backend, store, session, op, level>>

(* Another user of the mixer takes a free channel the session does not hold *)
ExtPlay(c) ==
    /\ mixer_init
    /\ ~Busy(channels[c])
    /\ current_channel # Some(c)
    /\ channels' = [channels EXCEPT ![c].sound = ExtSound]
    /\ UNCHANGED <<library, clock, backend, store, session, op, level>>

ExtEnd(c) ==
    /\ channels[c].sound.kind = "ext"
    /\ channels' = ChannelStop(channels, c)
    /\ UNCHANGED <<library, clock, backend, store, session, op, level>>

Calls ==
    \/ \E tracks \in TrackLists : Preload(tracks)
    \/ \E id \in Tracks, t \in Times, ok \in BOOLEAN : Play(id, t, ok)
    \/ \E t \in Times, ok \in BOOLEAN : Seek(t, ok)
    \/ Stop
    \/ Close

(* Playback against the clock and the device *)
Next ==
    \/ Calls
    \/ \E r \in PosReports : GetCurrentPosition(r)
    \/ Tick
    \/ \E c \in ChannelIds : ChannelAdvance(c)

Spec == Init /\ [][Next]_vars

(* A backend whose channels offer no get_pos(), as far as no position is *)
(* polled                                                                *)
InitNoPolls ==
    /\ Init
    /\ has_get_pos = FALSE

(* The volume level, with the clock standing still *)
NextVolume ==
    \/ Calls
    \/ \E v \in Volumes : SetVolume(v)

SpecVolume == InitNoPolls /\ [][NextVolume]_vars

(* The channel pool shared with other users of the mixer *)
NextPool ==
    \/ Calls
    \/ Tick
    \/ \E c \in ChannelIds : ChannelAdvance(c)
    \/ \E c \in ChannelIds : ExtPlay(c)
    \/ \E c \in ChannelIds : ExtEnd(c)

SpecPool == InitNoPolls /\ [][NextPool]_vars

(* Every call of the player against the clock and the device, on a backend *)
(* that reports its format and whose channels offer no get_pos()           *)
InitFrame ==
    /\ InitNoPolls
    /\ sample_rate # None

FrameVolumes == {25}

FrameTrackLists == {<<"a">>, <<"b">>}

NextFrame ==
    \/ \E tracks \in FrameTrackLists : Preload(tracks)
    \/ \E id \in Tracks, t \in Times, ok \in BOOLEAN : Play(id, t, ok)
    \/ \E t \in Times, ok \in BOOLEAN : Seek(t, ok)
    \/ Stop
    \/ Close
    \/ \E v \in FrameVolumes : SetVolume(v)
    \/ \E r \in PosReports : GetCurrentPosition(r)
    \/ Tick
    \/ \E c \in ChannelIds : ChannelAdvance(c)

SpecFrame == InitFrame /\ [][NextFrame]_vars

(* The same calls under a clock that keeps advancing (the host's timer and *)
(* time.monotonic) and a device that keeps playing what its channels hold    *)
(* until each sound has played out.                                          *)
SpecLive ==
    /\ InitFrame
    /\ [][NextFrame]_vars
    /\ WF_vars(Tick)
    /\ \A c \in ChannelIds : WF_vars(ChannelAdvance(c))

----------------------------------------------------------------------------
(* AudioLibraryLoader, loader.py *)

MaxFiles == 3

(* Characters in code-point order, the order of Python's str comparison *)
Uppers == <<"A", "B", "C", "D", "G", "H", "I", "M", "N", "O", "P", "S", "T", "V", "W", "X">>
Lowers == <<"a", "b", "c", "d", "g", "h", "i", "m", "n", "o", "p", "s", "t", "v", "w", "x">>
Alphabet == <<"\n", " ", ".", "/", "3">> \o Uppers \o <<"_">> \o Lowers

Code(ch) == CHOOSE i \in DOMAIN Alphabet : Alphabet[i] = ch

IsUpper(ch) == \E i \in DOMAIN Uppers : Uppers[i] = ch
IsLower(ch) == \E i \in DOMAIN Lowers : Lowers[i] = ch

(* str.lower() and str.upper(), one character *)
LowerOf(ch) ==
    IF IsUpper(ch) THEN Lowers[CHOOSE i \in DOMAIN Uppers : Uppers[i] = ch] ELSE ch
UpperOf(ch) ==
    IF IsLower(ch) THEN Uppers[CHOOSE i \in DOMAIN Lowers : Lowers[i] = ch] ELSE ch

Lowered(str) == [i \in DOMAIN str |-> LowerOf(str[i])]

(* a <= b for two strings *)
RECURSIVE StrLessEq(_, _)
StrLessEq(a, b) ==
    IF a = <<>> THEN TRUE
    ELSE IF b = <<>> THEN FALSE
    ELSE IF Code(Head(a)) < Code(Head(b)) THEN TRUE
    ELSE IF Code(Head(a)) > Code(Head(b)) THEN FALSE
    ELSE StrLessEq(Tail(a), Tail(b))

(* pathlib: PurePath.suffix, .stem and .with_suffix() on the final name *)
LastDot(name) ==
    IF \E i \in DOMAIN name : name[i] = "."
    THEN CHOOSE i \in DOMAIN name :
             /\ name[i] = "."
             /\ \A j \in DOMAIN name : name[j] = "." => j <= i
    ELSE 0

Suffix(name) ==
    LET i == LastDot(name)
    IN IF 1 < i /\ i < Len(name) THEN SubSeq(name, i, Len(name)) ELSE <<>>

Stem(name) ==
    LET i == LastDot(name)
    IN IF 1 < i /\ i < Len(name) THEN SubSeq(name, 1, i - 1) ELSE name

WithSuffix(name, suffix) == Stem(name) \o suffix

(* str.strip() *)
Whitespace == {" ", "\n"}

RECURSIVE LStrip(_)
LStrip(str) ==
    IF str # <<>> /\ Head(str) \in Whitespace THEN LStrip(Tail(str)) ELSE str

RECURSIVE RStrip(_)
RStrip(str) ==
    IF str # <<>> /\ str[Len(str)] \in Whitespace
    THEN RStrip(SubSeq(str, 1, Len(str) - 1))
    ELSE str

Strip(str) == RStrip(LStrip(str))

(* stem.replace("_", " ").title() *)
Title(stem) ==
    LET spaced == [i \in DOMAIN stem |-> IF stem[i] = "_" THEN " " ELSE stem[i]]
        Cased(ch) == IsUpper(ch) \/ IsLower(ch)
    IN [i \in DOMAIN spaced |->
           IF i = 1 \/ ~Cased(spaced[i - 1])
           THEN UpperOf(spaced[i])
           ELSE LowerOf(spaced[i])]

SUPPORTED_EXTENSIONS ==
    {<<".", "w", "a", "v">>, <<".", "m", "p", "3">>, <<".", "o", "g", "g">>}

DotTxt == <<".", "t", "x", "t">>

(* The paths a directory tree is drawn from: a directory below the root *)
(* ("" for the root itself) and a file name.                            *)
At(dir, name) == [dir |-> dir, name |-> name]

InRoot == <<>>
InSub == <<"s">>

B_wav == At(InRoot, <<"b", ".", "w", "a", "v">>)
A_WAV == At(InRoot, <<"A", ".", "W", "A", "V">>)
A_mp3 == At(InRoot, <<"a", ".", "m", "p", "3">>)
A_txt == At(InRoot, <<"a", ".", "t", "x", "t">>)
B_txt == At(InRoot, <<"b", ".", "t", "x", "t">>)
C_ogg == At(InRoot, <<"c", ".", "o", "g", "g">>)
N_md == At(InRoot, <<"n", ".", "m", "d">>)
AB_Ogg == At(InRoot, <<"a", "_", "b", ".", "O", "g", "g">>)
Sub_a_wav == At(InSub, <<"a", ".", "w", "a", "v">>)
Sub_a_txt == At(InSub, <<"a", ".", "t", "x", "t">>)

Paths == {B_wav, A_WAV, A_mp3, A_txt, B_txt, C_ogg, N_md, AB_Ogg, Sub_a_wav, Sub_a_txt}

(* Sidecars are plain UTF-8 text files; their contents *)
TextPaths == {A_txt, B_txt, Sub_a_txt}
Texts == {<<>>, <<" ", "\n">>, <<"h", "i">>, <<" ", "h", " ", "i", "\n">>}

(* A name with an audio extension may also be a directory *)
DirPaths == {C_ogg}

Entry(p, is_file, text) ==
    [dir |-> p.dir, name |-> p.name, is_file |-> is_file, text |-> text]

PathOf(f) == At(f.dir, f.name)

(* str(audio_path.relative_to(root)) *)
RelativePath(f) == IF f.dir = InRoot THEN f.name ELSE f.dir \o <<"/">> \o f.name

InitLoader ==
    /\ InitPlayer
    /\ has_get_pos = FALSE
    /\ sample_rate # None
    /\ root_exists \in BOOLEAN
    /\ recursive \in BOOLEAN
    /\ \E P \in SUBSET Paths, text \in [TextPaths -> Texts], dirs \in SUBSET DirPaths :
          /\ Cardinality(P) <= MaxFiles
          /\ ~root_exists => P = {}
          /\ files = {Entry(p, p \notin dirs,
                            IF p \in TextPaths THEN text[p] ELSE <<>>) : p \in P}
    /\ loaded = None

(* root.glob(pattern): the entries the pattern reaches, in an order the *)
(* file system chooses                                                  *)
Globbed == IF recursive THEN files ELSE {f \in files : f.dir = InRoot}

Listings ==
    {order \in [1..Cardinality(Globbed) -> Globbed] :
        \A i, j \in DOMAIN order : order[i] = order[j] => i = j}

(* _iter_audio_files, loader.py 20-27, past the check of the root *)
IsAudioFile(f) ==
    /\ f.is_file
    /\ Lowered(Suffix(f.name)) \in SUPPORTED_EXTENSIONS

IterAudioFiles(listing) == SelectSeq(listing, IsAudioFile)

(* sorted(..., key=lambda path: path.name.lower()): a stable sort *)
RECURSIVE InsertByName_CaseSensitive(_, _)
InsertByName_CaseSensitive(out, f) ==
    IF out = <<>> THEN <<f>>
    ELSE IF StrLessEq(Head(out).name, f.name)
         THEN <<Head(out)>> \o InsertByName_CaseSensitive(Tail(out), f)
         ELSE <<f>> \o out

RECURSIVE InsertByName(_, _)
InsertByName(out, f) ==
    IF out = <<>> THEN <<f>>
    ELSE IF StrLessEq(Lowered(Head(out).name), Lowered(f.name))
         THEN <<Head(out)>> \o InsertByName(Tail(out), f)
         ELSE <<f>> \o out

RECURSIVE SortedByName(_)
SortedByName(fs) ==
    IF fs = <<>> THEN <<>>
    ELSE InsertByName(SortedByName(SubSeq(fs, 1, Len(fs) - 1)), fs[Len(fs)])

(* The Track record of one audio file, loader.py 35-49 *)
TrackOf(f) ==
    LET transcript_path == At(f.dir, WithSuffix(f.name, DotTxt))
        exists == \E g \in files : PathOf(g) = transcript_path
        text == (CHOOSE g \in files : PathOf(g) = transcript_path).text
        transcript == IF exists /\ Strip(text) # <<>> THEN Some(Strip(text)) ELSE None
    IN [identifier |-> RelativePath(f),
        title |-> Title(Stem(f.name)),
        audio_path |-> PathOf(f),
        transcript_path |-> IF exists THEN Some(transcript_path) ELSE None,
        transcript |-> transcript]

(* load_tracks(), loader.py 29-51 *)
LoadTracks_NoCheck(listing) ==
    /\ listing \in Listings
    /\ loaded' = Some([i \in DOMAIN SortedByName(IterAudioFiles(listing)) |->
                          TrackOf(SortedByName(IterAudioFiles(listing))[i])])
    /\ op' = Call("load_tracks", "", 0, "")
    /\ UNCHANGED <<root_exists, recursive, files, clock, channels, backend,
                   store, session, level>>

LoadTracks(listing) ==
    /\ listing \in Listings
    /\ IF ~root_exists
       THEN /\ loaded' = None
            /\ op' = Call("load_tracks", "", 0, "FileNotFoundError")
       ELSE /\ loaded' = Some([i \in DOMAIN SortedByName(IterAudioFiles(listing)) |->
                                 TrackOf(SortedByName(IterAudioFiles(listing))[i])])
            /\ op' = Call("load_tracks", "", 0, "")
    /\ UNCHANGED <<root_exists, recursive, files, clock, channels, backend,
                   store, session, level>>

NextLoader == \E listing \in Listings : LoadTracks(listing)

SpecLoader == InitLoader /\ [][NextLoader]_vars

----------------------------------------------------------------------------
(* Properties *)

(* C1: play(track_id) for an identifier that is not preloaded raises       *)
(* KeyError, whatever the state and the start value; a play of a preloaded *)
(* identifier does not.                                                    *)
C1_PlayUnknownRaises ==
    op.name = "play" => (op.raised = "KeyError" <=> ~Preloaded(op.id))

C1_Witness ==
    /\ op.name = "play"
    /\ op.raised = "KeyError"
    /\ ~Preloaded(op.id)
    /\ IsPlaying
    /\ DOMAIN sounds # {}

(* C2: at most one channel of the pool is busy with a sound the player     *)
(* started, it is the session's channel and it carries the current track;  *)
(* after play(B) no channel is busy with a sound of another track.         *)
PlayerChannels == {c \in ChannelIds : channels[c].sound.kind \in {"full", "partial"}}

C2_SingleActiveTrack ==
    /\ Cardinality(PlayerChannels) <= 1
    /\ \A c \in PlayerChannels :
          /\ current_channel = Some(c)
          /\ current_track = Some(channels[c].sound.id)
    /\ (op.name = "play" /\ op.raised = "") =>
          \A c \in PlayerChannels : channels[c].sound.id = op.id

C2_Witness ==
    /\ op.name = "play"
    /\ op.was \notin {"", op.id}
    /\ IsPlaying
    /\ current_track = Some(op.id)
    /\ \E c \in ChannelIds : channels[c].sound.kind = "ext"

(* C3: after stop() the session is empty (no current track, no channel, no *)
(* start timestamp, offset 0), no channel plays a sound of the player,     *)
(* is_playing() is false and get_current_position() returns 0.             *)
C3_StopClearsSession ==
    op.name = "stop" =>
        /\ current_track = None
        /\ current_channel = None
        /\ start_timestamp = None
        /\ current_offset = 0
        /\ PlayerChannels = {}
        /\ ~IsPlaying
        /\ \A r \in PosReports : Position(r) = 0

C3_Witness ==
    /\ op.name = "stop"
    /\ op.was # ""
    /\ clock > 0
    /\ current_track = None

(* C4: get_current_position() returns 0 when no track is current, never a  *)
(* negative value, and at most L when the current track has a known length *)
(* L, whatever the channel reports.                                        *)
AnyReports == PosReports \cup {None, Some(0 - 1), Some(0), Some(Step), Some(MaxClock + Step)}

C4_PositionClamped ==
    \A r \in AnyReports :
        /\ current_track = None => Position(r) = 0
        /\ Position(r) >= 0
        /\ (current_track # None /\ lengths[Val(current_track)] > 0) =>
               Position(r) <= lengths[Val(current_track)]

C4_Witness ==
    /\ current_track = Some("a")
    /\ start_timestamp # None
    /\ current_offset + (clock - Val(start_timestamp)) > lengths["a"]
    /\ op.name = "get_current_position"
    /\ last_position = lengths["a"]

(* Seek claims: the current track's stored length, the state right after a *)
(* seek (no clock tick since), one frame duration as 1/rate of a second.   *)
CurrentLength == lengths[Val(current_track)]

JustSought ==
    /\ op.name = "seek"
    /\ current_track # None
    /\ start_timestamp \in {None, Some(clock)}

WithinOneFrame(p, t) == Abs(p - t) * format[1] < MsPerSecond

(* C5 as stated: for every current track with known length L and every t   *)
(* in [0, L], right after seek(t) the position is within one frame of t.    *)
C5_AsStated ==
    (JustSought /\ CurrentLength > 0 /\ 0 <= op.t /\ op.t <= CurrentLength) =>
        \A r \in PosReports : WithinOneFrame(Position(r), op.t)

(* C5 amended: for a current track with known length L that supports       *)
(* seeking and every t in [0, L], right after seek(t) the position is       *)
(* within one frame of t when the backend built the sliced segment (or no   *)
(* slice was needed); when it could not, or the track does not support      *)
(* seeking, the full track restarts and the position is 0.                  *)
FellBack == op.t > 0 /\ IsPlaying /\ active_segment = None

C5_SeekWithinFrame ==
    (JustSought /\ CurrentLength > 0 /\ 0 <= op.t /\ op.t <= CurrentLength) =>
        \A r \in PosReports :
            IF SupportsSeeking(Val(current_track)) /\ ~FellBack
            THEN WithinOneFrame(Position(r), op.t)
            ELSE Position(r) = 0 /\ IsPlaying

C5_Witness ==
    /\ JustSought
    /\ SupportsSeeking(Val(current_track))
    /\ CurrentLength > 0
    /\ op.t > 0
    /\ op.t < CurrentLength
    /\ current_offset # op.t
    /\ current_offset > 0
    /\ active_segment # None
    /\ IsPlaying

(* C6 as stated: for every current track with known length L and t > L,    *)
(* after seek(t) is_playing() is false and the position is exactly L.       *)
C6_AsStated ==
    (op.name = "seek" /\ current_track # None /\ CurrentLength > 0
        /\ op.t > CurrentLength) =>
        /\ ~IsPlaying
        /\ \A r \in PosReports : Position(r) = CurrentLength

(* C6 amended: for a current track with known length L that supports       *)
(* seeking and t > L, after seek(t) is_playing() is false and the position  *)
(* is exactly L; a track that does not support seeking restarts from 0.     *)
C6_SeekPastEnd ==
    (op.name = "seek" /\ current_track # None /\ CurrentLength > 0
        /\ op.t > CurrentLength) =>
        IF SupportsSeeking(Val(current_track))
        THEN /\ ~IsPlaying
             /\ \A r \in PosReports : Position(r) = CurrentLength
        ELSE /\ current_offset = 0
             /\ active_segment = None
             /\ start_timestamp # None

C6_Witness ==
    /\ op.name = "seek"
    /\ current_track # None
    /\ SupportsSeeking(Val(current_track))
    /\ CurrentLength > 0
    /\ op.t > CurrentLength
    /\ clock > 0
    /\ last_position = CurrentLength

(* C7: with no play/seek/stop/close in between, a get_current_position()   *)
(* call never returns less than the call before it (last_position is what  *)
(* the previous call returned), whatever the channel reports.              *)
C7_PositionMonotone ==
    (op.name = "get_current_position" /\ current_track # None
        /\ start_timestamp # None) =>
        \A r \in PosReports : Position(r) >= last_position

(* C8: preload is idempotent per identifier: the backend has loaded each   *)
(* preloaded identifier exactly once (and no other), there is one length   *)
(* entry per sound entry, and no step changes a stored sound, length or    *)
(* raw buffer.                                                             *)
LoadedOnce ==
    /\ \A id \in Tracks : loads[id] = IF Preloaded(id) THEN 1 ELSE 0
    /\ DOMAIN lengths = DOMAIN sounds
    /\ DOMAIN raw_audio \subseteq DOMAIN sounds

BuffersKept ==
    \A id \in DOMAIN sounds :
        /\ id \in DOMAIN sounds'
        /\ sounds'[id].path = sounds[id].path
        /\ lengths'[id] = lengths[id]
        /\ (id \in DOMAIN raw_audio) = (id \in DOMAIN raw_audio')
        /\ id \in DOMAIN raw_audio => raw_audio'[id] = raw_audio[id]

C8_PreloadIdempotent == [](LoadedOnce) /\ [][BuffersKept]_vars

C8_Witness ==
    /\ op.name = "preload"
    /\ IsPlaying
    /\ DOMAIN sounds = {Val(current_track)}
    /\ loads[Val(current_track)] = 1

(* C9: after set_volume(v) every preloaded sound, and the session channel  *)
(* if one is held, has volume max(0, min(v, 1)); no stored volume is ever  *)
(* outside [0, 1].                                                         *)
C9_VolumeApplied ==
    /\ op.name = "set_volume" =>
          /\ \A id \in DOMAIN sounds :
                 sounds[id].volume = Max(0, Min(op.t, FullVolume))
          /\ current_channel # None =>
                 channels[Val(current_channel)].volume = Max(0, Min(op.t, FullVolume))
    /\ \A id \in DOMAIN sounds :
          sounds[id].volume >= 0 /\ sounds[id].volume <= FullVolume
    /\ \A c \in ChannelIds :
          channels[c].volume >= 0 /\ channels[c].volume <= FullVolume

C9_Witness ==
    /\ op.name = "set_volume"
    /\ op.t > FullVolume
    /\ IsPlaying
    /\ Cardinality(DOMAIN sounds) >= 2
    /\ \E id \in DOMAIN sounds : sounds[id].volume = FullVolume
    /\ channels[Val(current_channel)].volume = FullVolume

(* C10: once a level has been set, the sound that a later play or seek     *)
(* hands to the channel (full or partial) carries that level.              *)
C10_PlaysInheritLevel ==
    (op.name \in {"play", "seek"} /\ op.raised = "" /\ IsPlaying /\ level # None) =>
        SoundVolume(channels[Val(current_channel)].sound) = Val(level)

(* C11, as stated: a seek made while is_playing() is false starts no output *)
(* and leaves the session as it was.                                        *)
C11_AsStated ==
    [][\A t \in Times, ok \in BOOLEAN :
          (Seek(t, ok) /\ ~IsPlaying) => UNCHANGED <<session, channels>>]_vars

(* C11: seek(position) is a no-op exactly when there is no current track    *)
(* (never played, stopped, closed): it then starts no output and leaves the *)
(* session as it was. While a current track remains, also when it is not    *)
(* playing (ended naturally, or positioned past the end), seek keeps that   *)
(* track and either starts it on a channel, stamping the start time, or     *)
(* leaves it positioned past the end with no start time.                    *)
C11_SeekNoTrackNoOp ==
    [][\A t \in Times, ok \in BOOLEAN :
          Seek(t, ok) =>
              IF current_track = None
              THEN UNCHANGED <<session, channels>>
              ELSE /\ current_track' = current_track
                   /\ \/ /\ current_channel' # None
                         /\ Busy(channels'[Val(current_channel')])
                         /\ start_timestamp' = Some(clock)
                      \/ /\ current_channel' = None
                         /\ start_timestamp' = None
                         /\ current_offset' = last_position']_vars

C11_Witness ==
    /\ op.name = "seek"
    /\ op.id = ""
    /\ current_track = None
    /\ DOMAIN sounds # {}
    /\ clock > 0

(* The session's channel has played its sound out: the player still holds  *)
(* the channel, which is no longer busy.                                   *)
EndedNaturally ==
    /\ current_channel # None
    /\ ~Busy(channels[Val(current_channel)])

(* C12, as stated: a poll of the position of a track that ended naturally  *)
(* leaves the session empty as stop() does: no current track, offset 0, no *)
(* start timestamp.                                                        *)
C12_AsStated ==
    [][\A r \in PosReports :
          (GetCurrentPosition(r) /\ EndedNaturally) =>
              /\ current_track' = None
              /\ current_offset' = 0
              /\ start_timestamp' = None]_vars

(* C12: when the playing track ends naturally and the host polls            *)
(* get_current_position() (is_playing() is then false), the session is kept *)
(* as it was: the same current track, channel, offset and start timestamp;  *)
(* the poll only stores the position, which is the track length when known. *)
C12_EndKeepsSession ==
    [][\A r \in PosReports :
          (GetCurrentPosition(r) /\ EndedNaturally) =>
              /\ UNCHANGED <<current_track, current_channel, active_segment,
                             start_timestamp, current_offset, channels>>
              /\ current_track # None
              /\ start_timestamp # None
              /\ ~IsPlaying'
              /\ CurrentLength > 0 => last_position' = CurrentLength]_vars

C12_Witness ==
    /\ op.name = "get_current_position"
    /\ EndedNaturally
    /\ current_track # None
    /\ start_timestamp # None
    /\ last_position = CurrentLength
    /\ CurrentLength > 0

(* C13: supports_seeking(id) is true exactly when preload captured a       *)
(* non-empty raw buffer for id and the player knows the sample rate and    *)
(* the bytes per frame; it is false for an identifier never preloaded, and *)
(* once the track is preloaded no call, tick or device step changes it.    *)
RawCaptured(id) ==
    /\ loads[id] > 0
    /\ Catalogue(id).has_raw
    /\ RawBytes(id) > 0

C13_SupportsSeeking ==
    /\ [](\A id \in Tracks :
             /\ SupportsSeeking(id) <=>
                    (RawCaptured(id) /\ sample_rate # None /\ bytes_per_frame # None)
             /\ ~Preloaded(id) => ~SupportsSeeking(id))
    /\ [][\A id \in Tracks :
             Preloaded(id) => (SupportsSeeking(id)' <=> SupportsSeeking(id))]_vars

C13_Witness ==
    /\ SupportsSeeking("a")
    /\ Preloaded("b")
    /\ ~SupportsSeeking("b")
    /\ ~Preloaded("c")
    /\ ~SupportsSeeking("c")
    /\ op.name = "seek"

(* C14: close() can be called any number of times from any reachable state: *)
(* the stop() inside it never meets a channel of a mixer that has quit, so  *)
(* it raises nothing; after it the session is empty, nothing plays and the  *)
(* mixer is released; a close() that follows a close() changes nothing in   *)
(* the player.                                                              *)
C14_CloseRepeatable ==
    /\ [](op.name = "close" =>
             /\ op.raised = ""
             /\ current_track = None
             /\ current_channel = None
             /\ active_segment = None
             /\ start_timestamp = None
             /\ current_offset = 0
             /\ ~IsPlaying
             /\ ~mixer_init
             /\ \A c \in ChannelIds : ~Busy(channels[c]))
    /\ [][Close =>
             /\ current_channel # None => mixer_init
             /\ op.name = "close" =>
                    UNCHANGED <<clock, channels, backend, store, session, level>>]_vars

C14_Witness ==
    /\ op.name = "close"
    /\ op.t = 1
    /\ DOMAIN sounds # {}
    /\ clock > 0

(* C15: with a current track, get_current_position() decides between two   *)
(* branches. When the session channel is busy and reports a position c > 0 *)
(* the result is offset + c; otherwise, with a start timestamp recorded,   *)
(* it is offset + max(0, now - start_timestamp) for the clock reading now, *)
(* so a reading earlier than the start timestamp gives the offset, never   *)
(* less. Either result is capped at the length when the length is known.   *)
(* The call stores the result of the current reading as the last position. *)
Readings == {k * Step : k \in 0..(MaxClock \div Step)}

Capped(x) == IF CurrentLength > 0 THEN Min(CurrentLength, x) ELSE x

Usable(r) == IsPlaying /\ r # None /\ Val(r) > 0

TwoBranch(r, now) ==
    IF Usable(r) THEN Capped(current_offset + Val(r))
    ELSE Capped(current_offset + Max(0, now - Val(start_timestamp)))

C15_TwoBranchPosition ==
    /\ [](\A r \in AnyReports, now \in Readings :
             (current_track # None /\ (Usable(r) \/ start_timestamp # None)) =>
                 /\ PositionAt(r, now) = TwoBranch(r, now)
                 /\ PositionAt(r, now) >= current_offset
                 /\ (~Usable(r) /\ now < Val(start_timestamp)) =>
                        PositionAt(r, now) = current_offset)
    /\ [][\A r \in PosReports :
             (GetCurrentPosition(r) /\ current_track # None
                  /\ (Usable(r) \/ start_timestamp # None)) =>
                 last_position' = TwoBranch(r, clock)]_vars

C15_Witness ==
    /\ op.name = "get_current_position"
    /\ IsPlaying
    /\ has_get_pos
    /\ channels[Val(current_channel)].pos > 0
    /\ last_position = current_offset + channels[Val(current_channel)].pos
    /\ last_position < current_offset + (clock - Val(start_timestamp))
    /\ last_position < CurrentLength

(* C16: get_current_position() never raises and returns a number: in every *)
(* reachable state (idle, playing, positioned past the end, after a        *)
(* natural end, after close) the channel it would query belongs to a live  *)
(* mixer, and for every report of the channel position (a value, zero, a   *)
(* negative value, none) the result is a non-negative number.              *)
C16_PositionNeverFails ==
    /\ PositionRaises = ""
    /\ op.name = "get_current_position" => op.raised = ""
    /\ \A r \in AnyReports : Position(r) \in Nat

C16_Witness ==
    /\ op.name = "get_current_position"
    /\ op.raised = ""
    /\ ~mixer_init
    /\ current_track # None
    /\ last_position = CurrentLength

(* C19: whenever play or seek for requested time t produces a partial       *)
(* segment of a track with raw buffer raw, the slice starts at byte offset  *)
(* floor(t * sample_rate) * bytes_per_frame, a multiple of bytes_per_frame  *)
(* strictly below len(raw); the segment is raw from that byte to the end;   *)
(* and the session offset is the achieved time byte_offset /                *)
(* (bytes_per_frame * sample_rate), at most t and not t itself when t is    *)
(* off the frame grid.                                                      *)
MadeSegment ==
    /\ op.name \in {"play", "seek"}
    /\ op.built = "ok"

C19_SegmentArithmetic ==
    MadeSegment =>
        LET raw == raw_audio[op.id]
            rate == Val(sample_rate)
            bpf == Val(bytes_per_frame)
            byte_offset == ((op.t * rate) \div MsPerSecond) * bpf
        IN /\ current_track = Some(op.id)
           /\ active_segment # None
           /\ Val(active_segment).kind = "partial"
           /\ Val(active_segment).from = byte_offset
           /\ byte_offset % bpf = 0
           /\ byte_offset < raw
           /\ byte_offset + Val(active_segment).bytes = raw
           /\ current_offset * bpf * rate = byte_offset * MsPerSecond
           /\ current_offset <= op.t
           /\ (op.t * rate) % MsPerSecond # 0 => current_offset < op.t
           /\ current_channel # None
           /\ start_timestamp = Some(clock) =>
                  channels[Val(current_channel)].sound = Val(active_segment)

C19_Witness ==
    /\ MadeSegment
    /\ op.name = "seek"
    /\ start_timestamp = Some(clock)
    /\ current_offset > 0
    /\ current_offset < op.t

(* C20: when the backend fails to build a sound from the raw slice during  *)
(* play(start=t) or seek(t), the call raises nothing and starts the full   *)
(* preloaded sound instead: the current track is the requested one, the    *)
(* session offset is 0, no segment is held, and is_playing() is true.      *)
BuildFailed ==
    /\ op.name \in {"play", "seek"}
    /\ op.built = "failed"

C20_BuildFailureFallsBack ==
    BuildFailed =>
        /\ op.raised = ""
        /\ current_track = Some(op.id)
        /\ current_offset = 0
        /\ active_segment = None
        /\ current_channel # None
        /\ start_timestamp # None
        /\ start_timestamp = Some(clock) =>
               /\ IsPlaying
               /\ channels[Val(current_channel)].sound = FullSound(op.id)
               /\ channels[Val(current_channel)].pos = 0
               /\ Position(None) = 0

C20_Witness ==
    /\ BuildFailed
    /\ op.name = "seek"
    /\ op.t > 0
    /\ start_timestamp = Some(clock)
    /\ clock > 0
    /\ IsPlaying
    /\ current_offset = 0

(* C17: load_tracks() on a root directory that does not exist raises       *)
(* FileNotFoundError and returns no track list; on an existing root it     *)
(* raises nothing and returns a list.                                      *)
C17_MissingRootRaises ==
    op.name = "load_tracks" =>
        /\ ~root_exists => (op.raised = "FileNotFoundError" /\ loaded = None)
        /\ root_exists => (op.raised = "" /\ loaded # None)

C17_Witness ==
    /\ op.name = "load_tracks"
    /\ ~root_exists
    /\ op.raised = "FileNotFoundError"
    /\ loaded = None

(* What the scan is expected to find, told from the paths themselves: the  *)
(* audio paths, their place in the order of lower-cased names, the sidecar *)
(* of each, and the trimmed text of each sidecar content.                  *)
AudioPaths == {B_wav, A_WAV, A_mp3, C_ogg, AB_Ogg, Sub_a_wav}

NameRank(p) ==
    CASE p = A_mp3 -> 1
      [] p \in {A_WAV, Sub_a_wav} -> 2
      [] p = AB_Ogg -> 3
      [] p = B_wav -> 4
      [] p = C_ogg -> 5

SidecarOf(p) ==
    CASE p = A_mp3 -> {A_txt}
      [] p = B_wav -> {B_txt}
      [] p = Sub_a_wav -> {Sub_a_txt}
      [] OTHER -> {}

Trimmed(text) ==
    CASE text = <<"h", "i">> -> Some(<<"h", "i">>)
      [] text = <<" ", "h", " ", "i", "\n">> -> Some(<<"h", " ", "i">>)
      [] OTHER -> None

ExpectedAudio ==
    {f \in files : /\ PathOf(f) \in AudioPaths
                   /\ f.is_file
                   /\ recursive \/ f.dir = InRoot}

ExpectedTranscript(p) ==
    LET sidecars == {g \in files : PathOf(g) \in SidecarOf(p)}
    IN IF sidecars = {} THEN None
       ELSE Trimmed((CHOOSE g \in sidecars : TRUE).text)

(* C18: for every content of an existing root, load_tracks() returns one   *)
(* Track per file in the scanned directories (the root; with recursive,    *)
(* everything below it) whose extension is .wav, .mp3 or .ogg in any       *)
(* letter case, and no other; the list is ordered by lower-cased file      *)
(* name; identifiers are pairwise distinct; each transcript is the trimmed *)
(* text of the .txt file with the same base name next to the audio file,   *)
(* and none when that file is missing or blank after trimming.             *)
C18_LoadTracks ==
    (op.name = "load_tracks" /\ root_exists) =>
        /\ loaded # None
        /\ LET ts == Val(loaded)
           IN /\ Len(ts) = Cardinality(ExpectedAudio)
              /\ {ts[i].audio_path : i \in DOMAIN ts} =
                     {PathOf(f) : f \in ExpectedAudio}
              /\ \A i, j \in DOMAIN ts :
                     i < j => NameRank(ts[i].audio_path) <= NameRank(ts[j].audio_path)
              /\ \A i, j \in DOMAIN ts :
                     i # j => ts[i].identifier # ts[j].identifier
              /\ \A i \in DOMAIN ts :
                     ts[i].transcript = ExpectedTranscript(ts[i].audio_path)

C18_Witness ==
    /\ op.name = "load_tracks"
    /\ loaded # None
    /\ Len(Val(loaded)) = 2
    /\ Val(loaded)[1].audio_path = A_mp3
    /\ Val(loaded)[1].transcript = Some(<<"h", " ", "i">>)
    /\ Val(loaded)[2].audio_path = A_WAV
    /\ Val(loaded)[2].transcript = None
    /\ Cardinality(files) = MaxFiles

(* C21: when the track does not support seeking (no raw buffer, or the     *)
(* sample format unknown) or the requested time is <= 0, play(id, start=t) *)
(* and seek(t) hand the full preloaded sound to the channel and record     *)
(* offset 0 and no segment, whatever t is.                                 *)
StartedWhole ==
    /\ op.name \in {"play", "seek"}
    /\ op.raised = ""
    /\ op.id # ""
    /\ op.t <= 0 \/ ~SupportsSeeking(op.id)

C21_UnseekablePlaysWhole ==
    StartedWhole =>
        /\ current_track = Some(op.id)
        /\ current_offset = 0
        /\ active_segment = None
        /\ op.built = ""
        /\ current_channel # None
        /\ start_timestamp # None
        /\ start_timestamp = Some(clock) =>
               /\ channels[Val(current_channel)].sound = FullSound(op.id)
               /\ last_position = 0

C21_Witness ==
    /\ StartedWhole
    /\ op.name = "seek"
    /\ op.t > 0
    /\ RawCaptured(op.id)
    /\ sample_rate = None
    /\ start_timestamp = Some(clock)
    /\ clock > 0

(* C22: a play(id, start=t) whose frame-aligned byte offset is at or past  *)
(* the end of the raw buffer hands nothing to any channel: on return no    *)
(* channel plays a sound of the player (the track playing before has been  *)
(* stopped), is_playing() is false, the session holds the requested track  *)
(* at the clamped target time (the length L when it is known, else t), and *)
(* no start timestamp, so the reported position is that time whatever the  *)
(* clock reads.                                                            *)
PlayedPastEnd ==
    /\ op.name = "play"
    /\ op.raised = ""
    /\ op.t > 0
    /\ op.id \in DOMAIN raw_audio
    /\ sample_rate # None
    /\ bytes_per_frame # None
    /\ LET known == lengths[op.id] > 0
           t == IF known THEN Min(op.t, lengths[op.id]) ELSE op.t
       IN ((t * Val(sample_rate)) \div MsPerSecond) * Val(bytes_per_frame)
              >= raw_audio[op.id]

C22_PlayPastEnd ==
    PlayedPastEnd =>
        LET target == IF lengths[op.id] > 0 THEN lengths[op.id] ELSE op.t
        IN /\ PlayerChannels = {}
           /\ ~IsPlaying
           /\ current_channel = None
           /\ active_segment = None
           /\ current_track = Some(op.id)
           /\ current_offset = target
           /\ last_position = target
           /\ start_timestamp = None
           /\ \A r \in AnyReports, now \in Readings : PositionAt(r, now) = target

C22_Witness ==
    /\ PlayedPastEnd
    /\ op.was = "b"
    /\ op.id = "a"
    /\ op.t > lengths["a"]
    /\ current_offset = lengths["a"]
    /\ clock > 0

(* What a host observes of the session: the current track, the offset, the *)
(* reported position, is_playing(), and the segment held (none for a full  *)
(* sound).                                                                 *)
Observed ==
    [track |-> current_track,
     offset |-> current_offset,
     position |-> Position(None),
     last |-> last_position,
     playing |-> IsPlaying,
     segment |-> active_segment,
     stamped |-> start_timestamp]

(* C23: from every reachable state with a current track X, and for every t *)
(* and every outcome of the backend's sound construction, what the host    *)
(* observes after seek(t) is what it would observe after play(X, start=t)  *)
(* made in the same state.                                                 *)
C23_SeekAsPlay ==
    [][\A t \in Times, ok \in BOOLEAN :
          (Seek(t, ok) /\ current_track # None) =>
              \A seen \in {Observed'} :
                  ENABLED (Play(Val(current_track), t, ok) /\ Observed' = seen)]_vars

C23_Witness ==
    /\ op.name = "seek"
    /\ op.built = "ok"
    /\ op.id = "a"
    /\ IsPlaying
    /\ start_timestamp = Some(clock)
    /\ clock > 0
    /\ \E c \in ChannelIds : channels[c].sound.kind = "ext"

(* C24: a play(id) of a preloaded track that does not land past the end    *)
(* returns with is_playing() true and id as the current track, however the *)
(* channel pool is occupied; when no channel was free it plays on channel  *)
(* 0; and the playback that was current before has been stopped, so the   *)
(* new sound is the only sound of the player on any channel.               *)
PlayedSound ==
    /\ op.name = "play"
    /\ op.raised = ""
    /\ ~PlayedPastEnd

C24_NewPlayWins ==
    PlayedSound =>
        /\ current_track = Some(op.id)
        /\ current_channel # None
        /\ start_timestamp # None
        /\ start_timestamp = Some(clock) =>
               /\ IsPlaying
               /\ PlayerChannels = {Val(current_channel)}
               /\ channels[Val(current_channel)].sound.id = op.id
               /\ op.pool = "full" => current_channel = Some(0)
               /\ op.was # "" => op.pool = ""

C24_Witness ==
    /\ PlayedSound
    /\ op.pool = "full"
    /\ IsPlaying
    /\ current_channel = Some(0)
    /\ \A c \in ChannelIds \ {0} : channels[c].sound.kind = "ext"
    /\ clock > 0

(* C25: is_playing() is true exactly when the session holds a channel and  *)
(* that channel is busy. It turns from false to true only in a play or     *)
(* seek call that handed a sound to the channel; preload, set_volume,      *)
(* stop, close and get_current_position, the passing of time and the       *)
(* device never start playback. (get_track_length and supports_seeking     *)
(* assign nothing.)                                                        *)
StartsPlayback ==
    \/ \E id \in Tracks, t \in Times, ok \in BOOLEAN : Play(id, t, ok)
    \/ \E t \in Times, ok \in BOOLEAN : Seek(t, ok)

C25_OnlyPlayOrSeekStarts ==
    /\ [](IsPlaying <=>
              \E c \in ChannelIds :
                  current_channel = Some(c) /\ channels[c].sound.kind # "none")
    /\ [][(~IsPlaying /\ IsPlaying') =>
              /\ StartsPlayback
              /\ op'.name \in {"play", "seek"}
              /\ op'.raised = ""
              /\ start_timestamp' = Some(clock)
              /\ current_track' = Some(op'.id)
              /\ channels'[Val(current_channel')].sound.id = op'.id
              /\ channels'[Val(current_channel')].pos = 0]_vars

C25_Witness ==
    /\ op.name = "seek"
    /\ IsPlaying
    /\ start_timestamp = Some(clock)
    /\ clock > 0
    /\ level # None
    /\ current_offset = 0
    /\ op.t > 0

(* C29: preload and set_volume leave the playback session as it was: the   *)
(* current track, channel, offset, start timestamp and segment, whether it *)
(* is playing, what the channel plays and how far, and the position a poll *)
(* reports. get_current_position changes nothing but the cached last       *)
(* position. (is_playing, get_track_length and supports_seeking assign     *)
(* nothing.)                                                               *)
LeavesSession ==
    \/ \E tracks \in FrameTrackLists : Preload(tracks)
    \/ \E v \in FrameVolumes : SetVolume(v)

Polls == \E r \in PosReports : GetCurrentPosition(r)

C29_QueriesLeaveSession ==
    [][/\ LeavesSession =>
              /\ UNCHANGED session
              /\ IsPlaying' <=> IsPlaying
              /\ Position(None)' = Position(None)
              /\ \A c \in ChannelIds :
                     /\ channels'[c].sound.kind = channels[c].sound.kind
                     /\ channels'[c].sound.id = channels[c].sound.id
                     /\ channels'[c].pos = channels[c].pos
       /\ Polls =>
              UNCHANGED <<clock, channels, backend, store, level, current_track,
                          current_channel, active_segment, start_timestamp,
                          current_offset>>]_vars

C29_Witness ==
    /\ op.name = "preload"
    /\ IsPlaying
    /\ current_track = Some("a")
    /\ loads["b"] = 1
    /\ clock > Val(start_timestamp)
    /\ channels[Val(current_channel)].pos > 0
    /\ level # None

(* C27: a play(track_id) rejected because track_id is not preloaded leaves *)
(* the session (current track, channel, offset, start timestamp, segment,  *)
(* last position), the channels and the preloaded store as they were; a    *)
(* track that was playing before the call is playing after it.             *)
C27_RejectedPlayKeepsAll ==
    [][\A id \in Tracks, t \in Times :
          PlayRejected(id, t) =>
              /\ op'.raised = "KeyError"
              /\ UNCHANGED <<session, channels, store, backend, clock>>
              /\ IsPlaying => IsPlaying'
              /\ Position(None)' = Position(None)]_vars

C27_Witness ==
    /\ op.name = "play"
    /\ op.raised = "KeyError"
    /\ IsPlaying
    /\ current_track = Some("a")
    /\ op.id = "b"
    /\ clock > Val(start_timestamp)
    /\ last_position > 0

(* C28: in every reachable state the session holds a channel exactly when  *)
(* a start timestamp is recorded; a held channel comes with a current      *)
(* track; the current track is a preloaded identifier; the offset is not   *)
(* negative; and every identifier with a raw buffer or a length has a      *)
(* sound.                                                                  *)
C28_SessionConsistent ==
    /\ current_channel # None <=> start_timestamp # None
    /\ current_channel # None => current_track # None
    /\ current_track # None => Val(current_track) \in DOMAIN sounds
    /\ current_offset >= 0
    /\ DOMAIN raw_audio \subseteq DOMAIN sounds
    /\ DOMAIN lengths \subseteq DOMAIN sounds

C28_Witness ==
    /\ op.name = "stop"
    /\ op.was = "a"
    /\ clock > 0
    /\ current_channel = None
    /\ start_timestamp = None
    /\ DOMAIN sounds = {"a", "b"}
    /\ DOMAIN raw_audio = {"a"}

(* A pause and resume by the host: p = get_current_position() on a playing *)
(* track, stop(), then play(id, start=p); the state is the one the play     *)
(* leaves, before the clock moves on.                                       *)
Resumed ==
    /\ op.name = "play"
    /\ op.resume = "yes"
    /\ op.raised = ""
    /\ SupportsSeeking(op.id)
    /\ start_timestamp \in {None, Some(clock)}

(* p is before the end of the track: _prepare_sound finds audio at p *)
BeforeEnd(track_id, p) == PrepareSound(track_id, p, TRUE).sound # None

Due(due) ==
    /\ start_timestamp # None
    /\ Val(current_track) \in DOMAIN lengths
    /\ lengths[Val(current_track)] > 0
    /\ due = Val(start_timestamp) + lengths[Val(current_track)] - current_offset

Started(due) ==
    /\ Due(due)
    /\ IsPlaying

(* The session's track has played out: is_playing() is false and           *)
(* get_current_position() returns exactly L.                               *)
Completed ==
    /\ current_track # None
    /\ start_timestamp # None
    /\ Val(current_track) \in DOMAIN lengths
    /\ lengths[Val(current_track)] > 0
    /\ ~IsPlaying
    /\ \A r \in PosReports : Position(r) = lengths[Val(current_track)]

(* C30: a track of known length L > 0 started by play or seek, with no     *)
(* play, seek, stop or close after it, a clock that keeps advancing and a  *)
(* channel that stops being busy once its sound has played out, eventually *)
(* has is_playing() false and get_current_position() exactly L; and from   *)
(* then on, as long as the session is not restarted or stopped, every poll *)
(* keeps returning L.                                                      *)
C30_RunsToCompletion ==
    /\ \A due \in Readings :
           Started(due) ~> (~Due(due) \/ Completed)
    /\ [][(/\ Completed
           /\ start_timestamp' = start_timestamp
           /\ current_track' = current_track
           /\ mixer_init') => Completed']_vars

C30_Witness ==
    /\ Completed
    /\ op.name = "get_current_position"
    /\ last_position = lengths[Val(current_track)]
    /\ clock > Val(start_timestamp) + lengths[Val(current_track)] - current_offset
    /\ current_offset > 0

====
